---- MODULE Spec2Model ----
(***************************************************************************)
(* State files of a trading-bot fleet: the BotStateWriter of               *)
(* trading-dashboard/bot_state.py and the StateReconciler of               *)
(* system-health-monitor/reconcile_state.py, which meet in one directory   *)
(* of JSON files, one per bot.                                             *)
(*                                                                         *)
(* A JSON document is a function from its keys to their values (a Python   *)
(* dict); a missing key is a key outside DOMAIN.  None is written "None"   *)
(* for the string-valued keys and 0 for the time-valued ones.  A file is   *)
(* absent, partial (opened for writing and not yet holding one complete    *)
(* document) or a document.                                                *)
(***************************************************************************)
EXTENDS Integers, Sequences, FiniteSets, TLC

\* ------------------------------------------------------------------ bounds
MaxCalls == 2       \* API calls begun per writer
MaxRaceCalls == 1   \* the same, in the runs that interleave several processes
MaxReconciles == 1  \* reconcile() runs
MaxClears == 2      \* clear_all_states() runs
MaxKills == 1       \* writer processes killed
MaxIterations == 2  \* reconcile runs main begins

\* ------------------------------------------------------------------ inputs
Bots == {"mm_1h", "hummingbot"}
Writers == {"w1", "w2", "w3"}
botOf(w) == IF w = "w3" THEN "hummingbot" ELSE "mm_1h"

NoneStr == "None"
NoneTime == 0

\* ------------------------------------------------------------------ dicts
EmptyDict == [k \in {} |-> 0]
DictUpdate(a, b) == [k \in (DOMAIN a) \cup (DOMAIN b) |-> IF k \in DOMAIN b THEN b[k] ELSE a[k]]
DictSet(a, k, v) == [x \in (DOMAIN a) \cup {k} |-> IF x = k THEN v ELSE a[x]]
Get(d, k, dflt) == IF k \in DOMAIN d THEN d[k] ELSE dflt

\* ------------------------------------------------------------------ files
NoFile == [kind |-> "none", doc |-> EmptyDict]
Partial == [kind |-> "partial", doc |-> EmptyDict]
NonObject == [kind |-> "value", doc |-> EmptyDict]
dumps(d) == [kind |-> "doc", doc |-> d]
Parses(c) == c.kind = "doc"
loads(c) == c.doc
Exists(c) == c.kind # "none"

\* The path _write opens for writing: the state file's name with suffix .tmp.
temp_file_in_place(w) == "json"
temp_file(w) == "tmp"

\* ------------------------------------------------------------------ writer
DefaultState(bot_id, bot_name) ==
    [bot_id |-> bot_id, bot_name |-> bot_name, status |-> "initializing",
     status_color |-> "yellow", pnl_total |-> 0, pnl_24h |-> 0,
     trades_total |-> 0, trades_24h |-> 0, position |-> NoneStr,
     last_update |-> NoneTime, last_error |-> NoneStr, uptime_seconds |-> 0,
     version |-> "1.0.0"]

color_map_keep(status, supplied) == supplied
color_map(status, supplied) ==
    CASE status \in {"running", "active"} -> "green"
      [] status \in {"initializing", "paused"} -> "yellow"
      [] status \in {"stopped", "error"} -> "red"
      [] status = "offline" -> "gray"
      [] OTHER -> "yellow"

\* update, lines 91-104: the merged record with its colour recomputed.
ApplyUpdates(cur, updates) ==
    LET merged == DictUpdate(cur, updates)
        status == Get(merged, "status", "unknown")
    IN DictSet(merged, "status_color",
               color_map(status, Get(merged, "status_color", "yellow")))

ApplyTrade_overwrite(cur, pnl, side, t) ==
    LET c1 == DictSet(cur, "trades_total", Get(cur, "trades_total", 0) + 1)
        c2 == DictSet(c1, "trades_24h", Get(cur, "trades_24h", 0) + 1)
        c3 == DictSet(c2, "pnl_total", pnl)
        c4 == DictSet(c3, "pnl_24h", pnl)
    IN DictSet(c4, "last_trade", [time |-> t, pnl |-> pnl, side |-> side])

\* record_trade, lines 136-144.
ApplyTrade(cur, pnl, side, t) ==
    LET c1 == DictSet(cur, "trades_total", Get(cur, "trades_total", 0) + 1)
        c2 == DictSet(c1, "trades_24h", Get(cur, "trades_24h", 0) + 1)
        c3 == DictSet(c2, "pnl_total", Get(cur, "pnl_total", 0) + pnl)
        c4 == DictSet(c3, "pnl_24h", Get(cur, "pnl_24h", 0) + pnl)
    IN DictSet(c4, "last_trade", [time |-> t, pnl |-> pnl, side |-> side])

set_running(extra_fields) == DictUpdate([status |-> "running"], extra_fields)
set_error(error_message) == [status |-> "error", last_error |-> error_message]
set_paused == [status |-> "paused"]
set_stopped == [status |-> "stopped"]
update_position(side) == [position |-> side]

StatusInputs == {"active", "offline", "custom"}
PnlInputs == {5, 3}
Call(name, updates, pnl) == [name |-> name, updates |-> updates, pnl |-> pnl, side |-> "buy"]
UpdateCalls ==
    {Call("update", [status |-> s], 0) : s \in StatusInputs}
    \cup {Call("update", [status |-> "paused", status_color |-> "green"], 0),
          Call("update", [last_update |-> 99], 0),
          Call("set_running", set_running(EmptyDict), 0),
          Call("set_error", set_error("boom"), 0),
          Call("set_stopped", set_stopped, 0),
          Call("set_paused", set_paused, 0),
          Call("set_running", set_running([status |-> "paused"]), 0),
          Call("update", [bot_id |-> "hummingbot"], 0),
          Call("update_position", update_position("long"), 0)}
TradeCalls == {Call("record_trade", EmptyDict, p) : p \in PnlInputs}
\* The calls of the runs that interleave several processes.
RaceUpdateCalls == {Call("set_running", set_running(EmptyDict), 0),
                    Call("update", [status |-> "active", last_update |-> 99], 0)}
RaceTradeCalls == {Call("record_trade", EmptyDict, 5)}
NoCall == Call("none", EmptyDict, 0)
InitCall == Call("__init__", EmptyDict, 0)

\* ------------------------------------------------------------------ reconciler
Observation(b) == [pid |-> 1, running |-> TRUE, started_at |-> NoneTime]
NoReport == [timestamp |-> NoneTime, processes_found |-> 0, state_files_found |-> 0,
             mismatches |-> <<>>, fixed |-> <<>>, healthy |-> TRUE]
Mismatch(bot_id, issue) == [bot_id |-> bot_id, issue |-> issue]
\* history: no reconcile has returned yet.
NoRun == [run |-> FALSE, fix |-> FALSE, procs |-> {}, files |-> EmptyDict]
\* main, lines 234-237: the flags, all off by default.
NoArgs == [daemon |-> FALSE, fix |-> FALSE, json |-> FALSE]

VARIABLES
    fs,              \* STATE_DIR: fs[b][p], p = "json" the state file, "tmp" its temp file
    now,             \* the clock: the value the next reading returns
    procs,           \* the bots with a live process that _extract_bot_id classifies
    wpc,             \* each writer's position
    wop,             \* the call it is in (or has last finished)
    _default_state,  \* self._default_state
    current,         \* update's and record_trade's `current`, _write's `state`
    alias,           \* whether `current` is the very object self._default_state
    wfd,             \* the path its open file descriptor's file now has
    wpre,            \* what the call read from the state file
    wout,            \* how its last call ended: "none", "ok", "raised"
    rpc,             \* the reconciler's position
    auto_fix,        \* self.auto_fix
    process_states,  \* reconcile's process_states
    file_states,     \* reconcile's file_states
    todo,            \* the bot ids the running loop has still to visit
    rbot,            \* the bot id the running loop is at
    rstate,          \* the `state` _create_state_file / _update_state_to_stopped writes
    rfd,             \* the path its open file descriptor's file now has
    rep,             \* reconcile's `report`, being built
    report,          \* the report reconcile last returned
    rout,            \* how the last reconcile call ended: "none", "ok", "raised"
    prev,            \* history: the processes and state files as the last reconcile to return left them
    mpc,             \* main's position
    args,            \* main's parsed arguments
    stdout,          \* what main has printed
    log,             \* LOG_FILE, a list of lines
    sleeps,          \* the time.sleep calls main has finished
    exit_code,       \* the status main exited with, "none" while it has not
    same,            \* history: the reconcile run in progress began in the state `prev` records
    cmdline,         \* a process's command line, by the patterns it contains
    extracted,       \* what _extract_bot_id returned for it
    calls, clears, kills, reconciles,
    traded,          \* history: the record_trade calls a writer has completed since it was built
    stamped,         \* history: per state file, the last complete document's last_update
                     \* and the clock when it was stored
    lastrename       \* history: per state file, the writer whose replace stored it last

wvars_but_fd == <<wpc, wop, _default_state, current, alias, wpre, wout>>
wvars == <<wpc, wop, _default_state, current, alias, wfd, wpre, wout>>
rvars == <<rpc, auto_fix, process_states, file_states, todo, rbot, rstate, rep, report, rout, prev>>
mvars == <<mpc, args, stdout, log, sleeps, exit_code, same, cmdline, extracted>>
budget == <<calls, clears, kills, reconciles>>
ghost == <<traded, stamped, lastrename>>
vars == <<fs, now, procs, wvars, rvars, rfd, budget, ghost, mvars>>

Init ==
    /\ fs = [b \in Bots |-> [p \in {"json", "tmp"} |-> NoFile]]
    /\ now = 1
    /\ procs = {}
    /\ wpc = [w \in Writers |-> "new"]
    /\ wop = [w \in Writers |-> NoCall]
    /\ _default_state = [w \in Writers |-> EmptyDict]
    /\ current = [w \in Writers |-> EmptyDict]
    /\ alias = [w \in Writers |-> FALSE]
    /\ wfd = [w \in Writers |-> "none"]
    /\ wpre = [w \in Writers |-> NoFile]
    /\ wout = [w \in Writers |-> "none"]
    /\ calls = [w \in Writers |-> 0]
    /\ clears = 0
    /\ kills = 0
    /\ reconciles = 0
    /\ rpc = "idle"
    /\ auto_fix = FALSE
    /\ process_states = EmptyDict
    /\ file_states = EmptyDict
    /\ todo = {}
    /\ rbot = "mm_1h"
    /\ rstate = EmptyDict
    /\ rfd = "none"
    /\ rep = NoReport
    /\ report = NoReport
    /\ traded = [w \in Writers |-> [n |-> 0, sum |-> 0, last |-> 0]]
    /\ stamped = [b \in Bots |-> [stamp |-> NoneTime, at |-> 0]]
    /\ lastrename = [b \in Bots |-> "none"]
    /\ rout = "none"
    /\ prev = NoRun
    /\ mpc = "off"
    /\ args = NoArgs
    /\ stdout = <<>>
    /\ log = <<>>
    /\ sleeps = 0
    /\ exit_code = "none"
    /\ same = FALSE
    /\ cmdline = {}
    /\ extracted = NoneStr

Quiet == rpc = "idle" /\ \A w \in Writers : wpc[w] \in {"new", "idle"}

\* history: `stamped` after a step that leaves the files as newfs.
StampedAfter(newfs) ==
    [b \in Bots |-> IF newfs[b]["json"] # fs[b]["json"] /\ Parses(newfs[b]["json"])
                    THEN [stamp |-> Get(loads(newfs[b]["json"]), "last_update", NoneTime),
                          at |-> now]
                    ELSE stamped[b]]

\* A call ends: by returning `current`, or by an exception leaving it.
Return(w, out) ==
    /\ wpc' = [wpc EXCEPT ![w] = IF wop[w].name = "__init__" /\ out = "raised"
                                 THEN "new" ELSE "idle"]
    /\ wout' = [wout EXCEPT ![w] = out]

\* __init__, lines 39-65.
BotStateWriter(w, excl) ==
    /\ wpc[w] = "new"
    /\ excl => Quiet
    /\ wop' = [wop EXCEPT ![w] = InitCall]
    /\ _default_state' = [_default_state EXCEPT ![w] = DefaultState(botOf(w), botOf(w))]
    /\ current' = [current EXCEPT ![w] = DefaultState(botOf(w), botOf(w))]
    /\ wpre' = [wpre EXCEPT ![w] = fs[botOf(w)]["json"]]
    /\ IF Exists(fs[botOf(w)]["json"])
       THEN /\ wpc' = [wpc EXCEPT ![w] = "idle"]
            /\ wout' = [wout EXCEPT ![w] = "ok"]
            /\ alias' = [alias EXCEPT ![w] = FALSE]
       ELSE /\ wpc' = [wpc EXCEPT ![w] = "write_stamp"]
            /\ wout' = [wout EXCEPT ![w] = "none"]
            /\ alias' = [alias EXCEPT ![w] = TRUE]
    /\ traded' = [traded EXCEPT ![w] = [n |-> 0, sum |-> 0, last |-> 0]]
    /\ UNCHANGED <<fs, now, procs, wfd, budget, rvars, rfd, stamped, lastrename>>
    /\ UNCHANGED mvars

Stamp_keep(state, t) ==
    IF Get(state, "last_update", NoneTime) # NoneTime THEN state
    ELSE DictSet(state, "last_update", t)
\* _write, line 71: state["last_update"] = now.
Stamp(state, t) == DictSet(state, "last_update", t)

\* _write, line 71, on `state`, which is self._default_state itself when the
\* caller passed that.
_write_stamp(w) ==
    /\ wpc[w] = "write_stamp"
    /\ current' = [current EXCEPT ![w] = Stamp(@, now)]
    /\ _default_state' = IF alias[w]
                         THEN [_default_state EXCEPT ![w] = Stamp(current[w], now)]
                         ELSE _default_state
    /\ now' = now + 1
    /\ wpc' = [wpc EXCEPT ![w] = "write_open"]
    /\ UNCHANGED <<fs, procs, wop, alias, wfd, wpre, wout, budget, rvars, rfd, ghost>>
    /\ UNCHANGED mvars

\* _write, line 72, write_text's open: the temp file is created or truncated.
_write_open(w) ==
    /\ wpc[w] = "write_open"
    /\ fs' = [fs EXCEPT ![botOf(w)][temp_file(w)] = Partial]
    /\ wfd' = [wfd EXCEPT ![w] = temp_file(w)]
    /\ wpc' = [wpc EXCEPT ![w] = "write_text"]
    /\ UNCHANGED <<now, procs, wop, _default_state, current, alias, wpre, wout, budget, rvars, rfd, ghost>>
    /\ UNCHANGED mvars

\* What a file holds after `doc` is written at offset 0 through a descriptor
\* opened before: the document, or, when another descriptor has written the
\* file since it was truncated, possibly the longer document's tail after it.
Written(old, doc) == IF old.kind = "doc" /\ old # dumps(doc) THEN {dumps(doc), Partial} ELSE {dumps(doc)}

\* _write, line 72, write_text's write and close.
_write_text(w) ==
    /\ wpc[w] = "write_text"
    /\ IF wfd[w] = "gone"
       THEN fs' = fs
       ELSE \E c \in Written(fs[botOf(w)][wfd[w]], current[w]) :
                fs' = [fs EXCEPT ![botOf(w)][wfd[w]] = c]
    /\ wfd' = [wfd EXCEPT ![w] = "none"]
    /\ wpc' = [wpc EXCEPT ![w] = "write_replace"]
    /\ stamped' = StampedAfter(fs')
    /\ UNCHANGED <<now, procs, wop, _default_state, current, alias, wpre, wout, budget, rvars, rfd,
                   traded, lastrename>>
    /\ UNCHANGED mvars

\* Where the open descriptors' files are after src is renamed over dst.
Renamed(fd, src, dst) ==
    IF src = dst THEN fd
    ELSE CASE fd = src -> dst
           [] fd = dst -> "gone"
           [] OTHER -> fd

\* _write, line 73: temp_file.replace(self.state_file).
_write_replace(w) ==
    /\ wpc[w] = "write_replace"
    /\ LET b == botOf(w)
           src == temp_file(w)
       IN IF ~Exists(fs[b][src])
          THEN /\ Return(w, "raised")
               /\ UNCHANGED <<fs, wfd, ghost>>
          ELSE /\ fs' = [fs EXCEPT ![b] = IF src = "json" THEN @
                                          ELSE [json |-> fs[b][src], tmp |-> NoFile]]
               /\ wfd' = [v \in Writers |-> IF botOf(v) = b THEN Renamed(wfd[v], src, "json")
                                            ELSE wfd[v]]
               /\ Return(w, "ok")
               /\ stamped' = StampedAfter(fs')
               /\ lastrename' = [lastrename EXCEPT ![b] = w]
               /\ traded' = IF wop[w].name = "record_trade"
                            THEN [traded EXCEPT ![w] = [n |-> @.n + 1, sum |-> @.sum + wop[w].pnl,
                                                        last |-> wop[w].pnl]]
                            ELSE traded
    /\ rfd' = IF rbot = botOf(w) /\ Exists(fs[botOf(w)][temp_file(w)])
              THEN Renamed(rfd, temp_file(w), "json") ELSE rfd
    /\ UNCHANGED <<now, procs, wop, _default_state, current, alias, wpre, budget, rvars>>
    /\ UNCHANGED mvars

\* update (and the setters, which call it), line 86; update_position, line 158,
\* reads the clock for opened_at before it calls update.
update(w, inputs, limit, excl) ==
    /\ wpc[w] = "idle"
    /\ excl => Quiet
    /\ calls[w] < limit
    /\ \E c \in inputs :
        /\ wop' = [wop EXCEPT ![w] = c]
        /\ now' = IF c.name = "update_position" /\ c.updates["position"] # NoneStr
                  THEN now + 1 ELSE now
    /\ current' = [current EXCEPT ![w] = _default_state[w]]
    /\ alias' = [alias EXCEPT ![w] = FALSE]
    /\ wpre' = [wpre EXCEPT ![w] = NoFile]
    /\ wout' = [wout EXCEPT ![w] = "none"]
    /\ wpc' = [wpc EXCEPT ![w] = "update_exists"]
    /\ calls' = [calls EXCEPT ![w] = @ + 1]
    /\ UNCHANGED <<fs, procs, _default_state, wfd, clears, kills, reconciles, rvars, rfd, ghost>>
    /\ UNCHANGED mvars

\* update, line 87; with no file, lines 91-104 follow at once.
update_exists(w) ==
    /\ wpc[w] = "update_exists"
    /\ IF Exists(fs[botOf(w)]["json"])
       THEN /\ wpc' = [wpc EXCEPT ![w] = "update_read"]
            /\ UNCHANGED current
       ELSE /\ wpc' = [wpc EXCEPT ![w] = "write_stamp"]
            /\ current' = [current EXCEPT ![w] = ApplyUpdates(@, wop[w].updates)]
    /\ UNCHANGED <<fs, now, procs, wop, _default_state, alias, wfd, wpre, wout, budget, rvars, rfd, ghost>>
    /\ UNCHANGED mvars

\* update, line 88, then lines 91-104.
update_read(w) ==
    /\ wpc[w] = "update_read"
    /\ LET c == fs[botOf(w)]["json"]
       IN IF Parses(c)
          THEN /\ current' = [current EXCEPT ![w] =
                                 ApplyUpdates(DictUpdate(@, loads(c)), wop[w].updates)]
               /\ wpre' = [wpre EXCEPT ![w] = c]
               /\ wpc' = [wpc EXCEPT ![w] = "write_stamp"]
               /\ UNCHANGED wout
          ELSE /\ Return(w, "raised")
               /\ UNCHANGED <<current, wpre>>
    /\ UNCHANGED <<fs, now, procs, wop, _default_state, alias, wfd, budget, rvars, rfd, ghost>>
    /\ UNCHANGED mvars

\* record_trade, line 134's test of exists(); with no file `current` is
\* self._default_state itself, and lines 136-144 follow at once.
record_trade(w, inputs, limit, excl) ==
    /\ wpc[w] = "idle"
    /\ excl => Quiet
    /\ calls[w] < limit
    /\ \E c \in inputs : wop' = [wop EXCEPT ![w] = c]
    /\ wpre' = [wpre EXCEPT ![w] = NoFile]
    /\ wout' = [wout EXCEPT ![w] = "none"]
    /\ wpc' = [wpc EXCEPT ![w] = "trade_exists"]
    /\ calls' = [calls EXCEPT ![w] = @ + 1]
    /\ UNCHANGED <<fs, now, procs, _default_state, current, alias, wfd, clears, kills, reconciles, rvars, rfd, ghost>>
    /\ UNCHANGED mvars

record_trade_exists(w) ==
    /\ wpc[w] = "trade_exists"
    /\ IF Exists(fs[botOf(w)]["json"])
       THEN /\ wpc' = [wpc EXCEPT ![w] = "trade_read"]
            /\ UNCHANGED <<current, _default_state, alias, now>>
       ELSE /\ wpc' = [wpc EXCEPT ![w] = "write_stamp"]
            /\ current' = [current EXCEPT ![w] =
                              ApplyTrade(_default_state[w], wop[w].pnl, wop[w].side, now)]
            /\ _default_state' = [_default_state EXCEPT ![w] =
                              ApplyTrade(@, wop[w].pnl, wop[w].side, now)]
            /\ alias' = [alias EXCEPT ![w] = TRUE]
            /\ now' = now + 1
    /\ UNCHANGED <<fs, procs, wop, wfd, wpre, wout, budget, rvars, rfd, ghost>>
    /\ UNCHANGED mvars

\* record_trade, line 134's read, then lines 136-144.
record_trade_read(w) ==
    /\ wpc[w] = "trade_read"
    /\ LET c == fs[botOf(w)]["json"]
       IN IF Parses(c)
          THEN /\ current' = [current EXCEPT ![w] =
                                 ApplyTrade(loads(c), wop[w].pnl, wop[w].side, now)]
               /\ alias' = [alias EXCEPT ![w] = FALSE]
               /\ wpre' = [wpre EXCEPT ![w] = c]
               /\ now' = now + 1
               /\ wpc' = [wpc EXCEPT ![w] = "write_stamp"]
               /\ UNCHANGED wout
          ELSE /\ Return(w, "raised")
               /\ UNCHANGED <<current, alias, wpre, now>>
    /\ UNCHANGED <<fs, procs, wop, _default_state, wfd, budget, rvars, rfd, ghost>>
    /\ UNCHANGED mvars

\* clear_all_states, lines 187-191.
clear_all_states(excl) ==
    /\ excl => Quiet
    /\ clears < MaxClears
    /\ \E b \in Bots : Exists(fs[b]["json"])
    /\ fs' = [b \in Bots |-> [fs[b] EXCEPT !["json"] = NoFile]]
    /\ wfd' = [w \in Writers |-> IF wfd[w] = "json" THEN "gone" ELSE wfd[w]]
    /\ rfd' = IF rfd = "json" THEN "gone" ELSE rfd
    /\ clears' = clears + 1
    /\ UNCHANGED <<now, procs, wvars_but_fd, calls, kills, reconciles, rvars, ghost>>
    /\ UNCHANGED mvars


\* A writer's process is killed (and may start again, constructing a new writer).
kill(w) ==
    /\ wpc[w] # "new"
    /\ kills < MaxKills
    /\ wpc' = [wpc EXCEPT ![w] = "new"]
    /\ wfd' = [wfd EXCEPT ![w] = "none"]
    /\ wout' = [wout EXCEPT ![w] = "none"]
    /\ kills' = kills + 1
    /\ UNCHANGED <<fs, now, procs, wop, _default_state, current, alias, wpre,
                   calls, clears, reconciles, rvars, rfd, ghost>>
    /\ UNCHANGED mvars

\* Bot processes start and exit.
processes_change(excl) ==
    /\ excl => Quiet
    /\ reconciles < MaxReconciles
    /\ \E b \in Bots : procs' = IF b \in procs THEN procs \ {b} ELSE procs \cup {b}
    /\ UNCHANGED <<fs, now, wvars, rvars, rfd, budget, ghost>>
    /\ UNCHANGED mvars

\* The bot whose state a writer keeps starts as a process, at any moment.
bot_starts(w) ==
    /\ botOf(w) \notin procs
    /\ procs' = procs \cup {botOf(w)}
    /\ UNCHANGED <<fs, now, wvars, rvars, rfd, budget, ghost, mvars>>

\* ------------------------------------------------------------------ reconciler
\* get_process_states, lines 33-74.
get_process_states == [b \in procs |-> Observation(b)]

\* get_file_states, lines 101-122: the files that parse, each as its summary.
get_file_states ==
    [b \in {x \in Bots : Parses(fs[x]["json"])} |->
        [status |-> Get(loads(fs[b]["json"]), "status", "unknown"),
         last_update |-> Get(loads(fs[b]["json"]), "last_update", NoneTime)]]

AddMismatch(r, bot_id, issue) ==
    [r EXCEPT !.mismatches = Append(@, Mismatch(bot_id, issue)), !.healthy = FALSE]
AddFixed_healthy(r, bot_id) ==
    [r EXCEPT !.fixed = Append(@, bot_id), !.healthy = (Len(r.fixed) + 1 = Len(r.mismatches))]
\* reconcile, lines 151 and 167: report["fixed"].append(bot_id).
AddFixed(r, bot_id) == [r EXCEPT !.fixed = Append(@, bot_id)]

\* reconcile, line 126.
reconcile(fix, excl) ==
    /\ rpc = "idle"
    /\ excl => Quiet
    /\ reconciles < MaxReconciles
    /\ auto_fix' = fix
    /\ process_states' = get_process_states
    /\ rpc' = "file_states"
    /\ reconciles' = reconciles + 1
    /\ UNCHANGED <<fs, now, procs, wvars, file_states, todo, rbot, rstate, rep, report, rout, prev,
                   rfd, calls, clears, kills, ghost>>
    /\ UNCHANGED mvars

\* get_file_states, lines 108-120: data.get on a document that is valid JSON
\* and not an object raises AttributeError, which line 119 does not catch.
get_file_states_raises == \E b \in Bots : fs[b]["json"] = NonObject

\* reconcile, lines 127-136; an exception of get_file_states leaves reconcile.
reconcile_file_states ==
    /\ rpc = "file_states"
    /\ IF get_file_states_raises
       THEN /\ rpc' = "idle"
            /\ rout' = "raised"
            /\ process_states' = EmptyDict
            /\ UNCHANGED <<file_states, rep, now, todo>>
       ELSE /\ file_states' = get_file_states
            /\ rep' = [timestamp |-> now,
                       processes_found |-> Cardinality(DOMAIN process_states),
                       state_files_found |-> Cardinality(DOMAIN get_file_states),
                       mismatches |-> <<>>, fixed |-> <<>>, healthy |-> TRUE]
            /\ now' = now + 1
            /\ todo' = DOMAIN process_states
            /\ rpc' = "processes"
            /\ UNCHANGED <<process_states, rout>>
    /\ UNCHANGED <<fs, procs, wvars, auto_fix, rbot, rstate, report, prev, rfd, budget, ghost>>
    /\ UNCHANGED mvars

\* bot_id.replace('_', ' ').title(), line 176.
title(bot_id) ==
    CASE bot_id = "mm_1h" -> "Mm 1H"
      [] bot_id = "hummingbot" -> "Hummingbot"
      [] OTHER -> bot_id

\* _create_state_file, lines 174-183.
CreatedState(bot_id, proc_state, t) ==
    [bot_id |-> bot_id, bot_name |-> title(bot_id), status |-> "running", status_color |-> "green",
     pid |-> proc_state.pid, started_at |-> proc_state.started_at, last_update |-> t,
     reconciled |-> TRUE]

\* reconcile, line 140.
NoStateFile_stale(bot_id) ==
    bot_id \notin DOMAIN file_states \/ file_states[bot_id].status # "running"
NoStateFile(bot_id) == bot_id \notin DOMAIN file_states

\* reconcile, lines 139-147: one turn of the loop over process_states.
reconcile_processes ==
    /\ rpc = "processes"
    /\ IF todo = {}
       THEN /\ todo' = DOMAIN file_states
            /\ rpc' = "files"
            /\ UNCHANGED <<rbot, rstate, rep, now>>
       ELSE \E b \in todo :
            /\ todo' = todo \ {b}
            /\ rbot' = b
            /\ IF NoStateFile(b)
               THEN /\ rep' = AddMismatch(rep, b, "running_but_no_state_file")
                    /\ IF auto_fix
                       THEN /\ rstate' = CreatedState(b, process_states[b], now)
                            /\ now' = now + 1
                            /\ rpc' = "create_open"
                       ELSE UNCHANGED <<rstate, now, rpc>>
               ELSE UNCHANGED <<rep, rstate, now, rpc>>
    /\ UNCHANGED <<fs, procs, wvars, auto_fix, process_states, file_states, report, rout, prev, rfd, budget, ghost>>
    /\ UNCHANGED mvars

\* _create_state_file, line 186, write_text's open: the state file itself is
\* created or truncated.
_create_state_file_open ==
    /\ rpc = "create_open"
    /\ fs' = [fs EXCEPT ![rbot]["json"] = Partial]
    /\ rfd' = "json"
    /\ rpc' = "create_write"
    /\ UNCHANGED <<now, procs, wvars, auto_fix, process_states, file_states, todo, rbot,
                   rstate, rep, report, rout, prev, budget, ghost>>
    /\ UNCHANGED mvars

\* _create_state_file, line 186, write_text's write and close; reconcile, line 151.
_create_state_file_write ==
    /\ rpc = "create_write"
    /\ IF rfd = "gone"
       THEN fs' = fs
       ELSE \E c \in Written(fs[rbot][rfd], rstate) : fs' = [fs EXCEPT ![rbot][rfd] = c]
    /\ rfd' = "none"
    /\ rep' = AddFixed(rep, rbot)
    /\ rpc' = "processes"
    /\ stamped' = StampedAfter(fs')
    /\ UNCHANGED <<now, procs, wvars, auto_fix, process_states, file_states, todo, rbot,
                   rstate, report, rout, prev, budget, traded, lastrename>>
    /\ UNCHANGED mvars

ProcessMissing_unscanned(bot_id) == file_states[bot_id].status \in {"running", "active"}
\* reconcile, lines 155-156.
ProcessMissing_running(bot_id) ==
    bot_id \notin DOMAIN process_states /\ file_states[bot_id].status = "running"
ProcessMissing(bot_id) ==
    bot_id \notin DOMAIN process_states /\ file_states[bot_id].status \in {"running", "active"}

\* reconcile, lines 154-163: one turn of the loop over file_states; line 169.
reconcile_files ==
    /\ rpc = "files"
    /\ IF todo = {}
       THEN /\ report' = rep
            /\ rout' = "ok"
            /\ prev' = [run |-> TRUE, fix |-> auto_fix, procs |-> procs,
                        files |-> [b \in Bots |-> fs[b]["json"]]]
            /\ rpc' = "idle"
            /\ process_states' = EmptyDict
            /\ file_states' = EmptyDict
            /\ rstate' = EmptyDict
            /\ rep' = NoReport
            /\ UNCHANGED <<todo, rbot>>
       ELSE \E b \in todo :
            /\ todo' = todo \ {b}
            /\ rbot' = b
            /\ IF ProcessMissing(b)
               THEN /\ rep' = AddMismatch(rep, b, "state_says_running_but_process_missing")
                    /\ rpc' = IF auto_fix THEN "stopped_exists" ELSE rpc
               ELSE UNCHANGED <<rep, rpc>>
            /\ UNCHANGED <<report, rout, prev, process_states, file_states, rstate>>
    /\ UNCHANGED <<fs, now, procs, wvars, auto_fix, rfd, budget, ghost>>
    /\ UNCHANGED mvars

\* _update_state_to_stopped, line 191; reconcile, line 167.
_update_state_to_stopped_exists ==
    /\ rpc = "stopped_exists"
    /\ IF Exists(fs[rbot]["json"])
       THEN /\ rpc' = "stopped_read"
            /\ UNCHANGED rep
       ELSE /\ rpc' = "files"
            /\ rep' = AddFixed(rep, rbot)
    /\ UNCHANGED <<fs, now, procs, wvars, auto_fix, process_states, file_states, todo, rbot,
                   rstate, report, rout, prev, rfd, budget, ghost>>
    /\ UNCHANGED mvars

StoppedState_keep_status(state, t) ==
    DictSet(DictSet(DictSet(state, "status_color", "red"), "last_update", t), "reconciled", TRUE)
StoppedState_status_only(state, t) ==
    DictSet(DictSet(DictSet(state, "status", "stopped"), "last_update", t), "reconciled", TRUE)
\* _update_state_to_stopped, lines 194-197.
StoppedState(state, t) ==
    DictSet(DictSet(DictSet(DictSet(state, "status", "stopped"), "status_color", "red"),
                    "last_update", t), "reconciled", TRUE)

\* _update_state_to_stopped, lines 193-197; a file that does not parse (or is
\* gone) raises, and lines 199-200 pass.
_update_state_to_stopped_read ==
    /\ rpc = "stopped_read"
    /\ IF Parses(fs[rbot]["json"])
       THEN /\ rstate' = StoppedState(loads(fs[rbot]["json"]), now)
            /\ now' = now + 1
            /\ rpc' = "stopped_open"
            /\ UNCHANGED rep
       ELSE /\ rpc' = "files"
            /\ rep' = AddFixed(rep, rbot)
            /\ UNCHANGED <<rstate, now>>
    /\ UNCHANGED <<fs, procs, wvars, auto_fix, process_states, file_states, todo, rbot,
                   report, rout, prev, rfd, budget, ghost>>
    /\ UNCHANGED mvars

\* _update_state_to_stopped, line 198, write_text's open.
_update_state_to_stopped_open ==
    /\ rpc = "stopped_open"
    /\ fs' = [fs EXCEPT ![rbot]["json"] = Partial]
    /\ rfd' = "json"
    /\ rpc' = "stopped_write"
    /\ UNCHANGED <<now, procs, wvars, auto_fix, process_states, file_states, todo, rbot,
                   rstate, rep, report, rout, prev, budget, ghost>>
    /\ UNCHANGED mvars

\* _update_state_to_stopped, line 198, write_text's write and close; reconcile, line 167.
_update_state_to_stopped_write ==
    /\ rpc = "stopped_write"
    /\ IF rfd = "gone"
       THEN fs' = fs
       ELSE \E c \in Written(fs[rbot][rfd], rstate) : fs' = [fs EXCEPT ![rbot][rfd] = c]
    /\ rfd' = "none"
    /\ rep' = AddFixed(rep, rbot)
    /\ rpc' = "files"
    /\ stamped' = StampedAfter(fs')
    /\ UNCHANGED <<now, procs, wvars, auto_fix, process_states, file_states, todo, rbot,
                   rstate, report, rout, prev, budget, traded, lastrename>>
    /\ UNCHANGED mvars

\* ------------------------------------------------------------------ _extract_bot_id
\* The patterns _extract_bot_id looks for.  A command line is the set of the
\* patterns it contains: the first three as written, the others in any case.
Patterns ==
    {"mm_optimized_15m", "mm_optimized_1h", "bot_v1", "python", "long", "short",
     "btc", "doge", "hummingbot"}

\* _extract_bot_id, lines 76-99.
_extract_bot_id(c) ==
    IF "mm_optimized_15m" \in c THEN "mm_15m"
    ELSE IF "mm_optimized_1h" \in c THEN "mm_1h"
    ELSE IF "bot_v1" \in c \/ ("python" \in c /\ ("long" \in c \/ "short" \in c))
         THEN IF "btc" \in c
              THEN IF "long" \in c THEN "btc_long_v1"
                   ELSE IF "short" \in c THEN "btc_short_v1"
                   ELSE NoneStr
              ELSE IF "doge" \in c
                   THEN IF "long" \in c THEN "doge_long_v1"
                        ELSE IF "short" \in c THEN "doge_short_v1"
                        ELSE NoneStr
                   ELSE NoneStr
    ELSE IF "hummingbot" \in c THEN "hummingbot"
    ELSE NoneStr

\* get_process_states, lines 41-48 and 65-66: a process's command line is classified.
extract ==
    /\ \E c \in SUBSET Patterns :
        /\ cmdline' = c
        /\ extracted' = _extract_bot_id(c)
    /\ UNCHANGED <<fs, now, procs, wvars, rvars, rfd, budget, ghost,
                   mpc, args, stdout, log, sleeps, exit_code, same>>

\* ------------------------------------------------------------------ main
\* Something other than the two programs stores a file in STATE_DIR: text that
\* is not JSON, or JSON that is not an object.
foreign_write(excl) ==
    /\ excl => Quiet
    /\ \E b \in Bots : \E c \in {Partial, NonObject} :
        /\ fs[b]["json"] # c
        /\ fs' = [fs EXCEPT ![b]["json"] = c]
    /\ UNCHANGED <<now, procs, wvars, rvars, rfd, budget, ghost, mvars>>

Banner == [kind |-> "banner", report |-> NoReport]
Text(r) == [kind |-> "text", report |-> r]
Json(r) == [kind |-> "json", report |-> r]

\* The flags main can be started with.
ArgSets == [daemon : BOOLEAN, fix : BOOLEAN, json : BOOLEAN]

\* main, lines 247-248 and 255-258: what is printed for a report.
Printed(a, r) ==
    IF a.daemon
    THEN IF ~a.json THEN <<Text(r)>> ELSE <<>>
    ELSE IF a.json THEN <<Json(r)>> ELSE <<Text(r)>>

\* log_report, lines 206-207: the file opened in mode 'a', one line written.
log_report(l, r) == Append(l, r)

\* main, lines 237-242.
main(a, excl) ==
    /\ mpc = "off"
    /\ rpc = "idle"
    /\ excl => Quiet
    /\ args' = a
    /\ auto_fix' = a.fix
    /\ stdout' = IF a.daemon THEN <<Banner>> ELSE <<>>
    /\ mpc' = "call"
    /\ UNCHANGED <<fs, now, procs, wvars, rpc, process_states, file_states, todo, rbot, rstate,
                   rep, report, rout, prev, rfd, budget, ghost,
                   log, sleeps, exit_code, same, cmdline, extracted>>

\* main, lines 244 and 252: reconciler.reconcile() is called; reconcile, line 126.
main_reconcile(excl) ==
    /\ mpc = "call"
    /\ rpc = "idle"
    /\ excl => Quiet
    /\ Len(log) < MaxIterations
    /\ process_states' = get_process_states
    /\ rpc' = "file_states"
    /\ rout' = "none"
    /\ mpc' = "reconciling"
    /\ same' = (/\ prev.run /\ prev.fix /\ auto_fix
                /\ prev.procs = procs
                /\ prev.files = [b \in Bots |-> fs[b]["json"]])
    /\ UNCHANGED <<fs, now, procs, wvars, auto_fix, file_states, todo, rbot, rstate,
                   rep, report, prev, rfd, budget, ghost,
                   args, stdout, log, sleeps, exit_code, cmdline, extracted>>

\* main, lines 244 and 252: reconcile raised, nothing catches it, and the
\* interpreter prints the traceback and exits with status 1.
main_raised ==
    /\ mpc = "reconciling"
    /\ rpc = "idle"
    /\ rout = "raised"
    /\ mpc' = "exited"
    /\ exit_code' = 1
    /\ UNCHANGED <<fs, now, procs, wvars, rvars, rfd, budget, ghost,
                   args, stdout, log, sleeps, same, cmdline, extracted>>

\* main, lines 245 and 253: reconciler.log_report(report).
main_log ==
    /\ mpc = "reconciling"
    /\ rpc = "idle"
    /\ rout = "ok"
    /\ log' = log_report(log, report)
    /\ mpc' = "print"
    /\ UNCHANGED <<fs, now, procs, wvars, rvars, rfd, budget, ghost,
                   args, stdout, sleeps, exit_code, same, cmdline, extracted>>

\* main, lines 247-248; lines 255-260, where main exits.
main_print ==
    /\ mpc = "print"
    /\ stdout' = stdout \o Printed(args, report)
    /\ IF args.daemon
       THEN /\ mpc' = "sleep"
            /\ UNCHANGED exit_code
       ELSE /\ mpc' = "exited"
            /\ exit_code' = IF report.healthy THEN 0 ELSE 1
    /\ UNCHANGED <<fs, now, procs, wvars, rvars, rfd, budget, ghost,
                   args, log, sleeps, same, cmdline, extracted>>

\* main, line 250: time.sleep(RECONCILE_INTERVAL).
main_sleep ==
    /\ mpc = "sleep"
    /\ sleeps' = sleeps + 1
    /\ mpc' = "call"
    /\ UNCHANGED <<fs, now, procs, wvars, rvars, rfd, budget, ghost,
                   args, stdout, log, exit_code, same, cmdline, extracted>>

MainStep ==
    \/ main_raised
    \/ main_log
    \/ main_print
    \/ main_sleep

\* ------------------------------------------------------------------ specifications
WriterStep(w) ==
    \/ _write_stamp(w)
    \/ _write_open(w)
    \/ _write_text(w)
    \/ _write_replace(w)
    \/ update_exists(w)
    \/ update_read(w)
    \/ record_trade_exists(w)
    \/ record_trade_read(w)

ReconcilerStep ==
    \/ reconcile_file_states
    \/ reconcile_processes
    \/ _create_state_file_open
    \/ _create_state_file_write
    \/ reconcile_files
    \/ _update_state_to_stopped_exists
    \/ _update_state_to_stopped_read
    \/ _update_state_to_stopped_open
    \/ _update_state_to_stopped_write

\* One writer and the reconciler, each call running to its end before the next begins.
Next ==
    \/ BotStateWriter("w1", TRUE)
    \/ update("w1", UpdateCalls, MaxCalls, TRUE)
    \/ record_trade("w1", TradeCalls, MaxCalls, TRUE)
    \/ WriterStep("w1")
    \/ clear_all_states(TRUE)
    \/ processes_change(TRUE)
    \/ \E fix \in BOOLEAN : reconcile(fix, TRUE)
    \/ ReconcilerStep

Spec == Init /\ [][Next]_vars

\* One writer of a bot, killed at any step and built again, with no other
\* process at the state directory; a reader may look at any state.
NextSingle ==
    \/ BotStateWriter("w1", FALSE)
    \/ update("w1", UpdateCalls, MaxCalls, FALSE)
    \/ record_trade("w1", TradeCalls, MaxCalls, FALSE)
    \/ WriterStep("w1")
    \/ kill("w1")

SpecSingle == Init /\ [][NextSingle]_vars

\* One writer, alone at the state directory.
NextWriter ==
    \/ BotStateWriter("w1", TRUE)
    \/ update("w1", UpdateCalls, MaxCalls, TRUE)
    \/ record_trade("w1", TradeCalls, MaxCalls, TRUE)
    \/ WriterStep("w1")

SpecWriter == Init /\ [][NextWriter]_vars

\* One writer and the reconciler in auto-fix mode, their steps interleaved.
NextFix ==
    \/ BotStateWriter("w1", FALSE)
    \/ update("w1", RaceUpdateCalls, MaxRaceCalls, FALSE)
    \/ record_trade("w1", RaceTradeCalls, MaxRaceCalls, FALSE)
    \/ WriterStep("w1")
    \/ processes_change(FALSE)
    \/ reconcile(TRUE, FALSE)
    \/ ReconcilerStep

SpecFix == Init /\ [][NextFix]_vars

\* Two writers of one bot, their steps interleaved.
NextRace ==
    \/ \E w \in {"w1", "w2"} : BotStateWriter(w, FALSE)
    \/ \E w \in {"w1", "w2"} : update(w, RaceUpdateCalls, MaxRaceCalls, FALSE)
    \/ \E w \in {"w1", "w2"} : record_trade(w, RaceTradeCalls, MaxRaceCalls, FALSE)
    \/ \E w \in {"w1", "w2"} : WriterStep(w)

SpecRace == Init /\ [][NextRace]_vars

\* One bot, starting as a process and writing its state, and the reconciler
\* in auto-fix mode, their steps interleaved.
NextLive ==
    \/ bot_starts("w1")
    \/ BotStateWriter("w1", FALSE)
    \/ update("w1", RaceUpdateCalls, MaxRaceCalls, FALSE)
    \/ record_trade("w1", RaceTradeCalls, MaxRaceCalls, FALSE)
    \/ WriterStep("w1")
    \/ processes_change(FALSE)
    \/ reconcile(TRUE, FALSE)
    \/ ReconcilerStep

SpecLive == Init /\ [][NextLive]_vars

\* Command lines, one after another, each classified.
NextExtract == extract

SpecExtract == Init /\ [][NextExtract]_vars

\* main with any flags, the processes and foreign files changing between
\* the reconcile runs.
NextDaemon ==
    \/ \E a \in ArgSets : main(a, TRUE)
    \/ main_reconcile(TRUE)
    \/ MainStep
    \/ ReconcilerStep
    \/ processes_change(TRUE)
    \/ foreign_write(TRUE)

SpecDaemon == Init /\ [][NextDaemon]_vars

\* main --daemon --fix and one writer, the processes changing between the
\* calls, each call running to its end before the next begins.
NextConverge ==
    \/ main([daemon |-> TRUE, fix |-> TRUE, json |-> FALSE], TRUE)
    \/ main_reconcile(TRUE)
    \/ main_log
    \/ main_print
    \/ main_sleep
    \/ ReconcilerStep
    \/ BotStateWriter("w1", TRUE)
    \/ update("w1", RaceUpdateCalls, MaxRaceCalls, TRUE)
    \/ record_trade("w1", RaceTradeCalls, MaxRaceCalls, TRUE)
    \/ WriterStep("w1")
    \/ processes_change(TRUE)

SpecConverge == Init /\ [][NextConverge]_vars

\* ------------------------------------------------------------------ claims

\* C1: with one writer per bot, killed at any step of _write, the state file a
\* reader opens is never a partial document, and every change of it stores
\* the complete new document of the call that makes the change.
C1_ReaderSeesWholeDocument ==
    /\ [](\A b \in Bots : fs[b]["json"].kind # "partial")
    /\ [][\A b \in Bots : fs'[b]["json"] # fs[b]["json"] =>
            \E w \in Writers : /\ botOf(w) = b
                               /\ wpc[w] = "write_replace"
                               /\ current[w]["last_update"] = now - 1
                               /\ fs'[b]["json"] = dumps(current[w])]_vars

\* A writer was killed with its temp file half written, the state file holds
\* the previous call's document, and the writer, built again, is writing.
C1_Witness ==
    /\ kills > 0
    /\ fs["mm_1h"]["tmp"].kind = "partial"
    /\ Parses(fs["mm_1h"]["json"])
    /\ Get(loads(fs["mm_1h"]["json"]), "trades_total", 0) = 1
    /\ wpc["w1"] = "new"

\* The colour the BotState schema gives a status.
DocumentedColor(status) ==
    CASE status \in {"running", "active"} -> "green"
      [] status \in {"initializing", "paused"} -> "yellow"
      [] status \in {"stopped", "error"} -> "red"
      [] status = "offline" -> "gray"
      [] OTHER -> "yellow"

\* C2: every state file holds status_color = f(status), f the documented
\* mapping with yellow for every other status.
C2_ColorFollowsStatus ==
    \A b \in Bots : Parses(fs[b]["json"]) =>
        LET d == loads(fs[b]["json"])
        IN /\ "status_color" \in DOMAIN d
           /\ d["status_color"] = DocumentedColor(Get(d, "status", "unknown"))

\* update was given status_color green with status paused and an unrecognized
\* status was stored earlier or later; the file holds yellow.
C2_Witness ==
    /\ wpc["w1"] = "idle" /\ wout["w1"] = "ok"
    /\ Get(wop["w1"].updates, "status_color", "none") = "green"
    /\ Parses(fs["mm_1h"]["json"])
    /\ loads(fs["mm_1h"]["json"])["status"] = "paused"
    /\ loads(fs["mm_1h"]["json"])["status_color"] = "yellow"
    /\ Parses(fs["hummingbot"]["json"])
    /\ loads(fs["hummingbot"]["json"])["status_color"] = "green"

\* The counters and the position a document holds, a missing counter read as
\* 0 (as record_trade, lines 136-139, reads it) and a missing position as None.
Unrelated(d) ==
    [pnl_total |-> Get(d, "pnl_total", 0), trades_total |-> Get(d, "trades_total", 0),
     position |-> Get(d, "position", NoneStr)]

\* C3: a call update({status: s}) on an existing state file returns and stores
\* pnl_total, trades_total and position as they were in the file it read.
C3_StatusUpdateKeepsUnrelated ==
    \A w \in Writers :
        (/\ wpc[w] = "idle" /\ wout[w] = "ok"
         /\ wop[w].name \in {"update", "set_running", "set_stopped"}
         /\ DOMAIN wop[w].updates = {"status"}
         /\ Parses(wpre[w]))
        => /\ Unrelated(current[w]) = Unrelated(loads(wpre[w]))
           /\ fs[botOf(w)]["json"] = dumps(current[w])
                => Unrelated(loads(fs[botOf(w)]["json"])) = Unrelated(loads(wpre[w]))

\* C4: with one writer alone at the file, after n record_trade calls on a
\* freshly constructed bot the file holds trades_total = trades_24h = n,
\* pnl_total = pnl_24h = the sum of the pnl given, and last_trade the pnl and
\* side of the last call; each call adds 1 and its pnl to what it read.
C4_RecordTradeAdditive ==
    \A w \in Writers : wpc[w] = "idle" =>
        LET c == fs[botOf(w)]["json"]
            d == loads(c)
        IN /\ Parses(c)
           /\ d["trades_total"] = traded[w].n /\ d["trades_24h"] = traded[w].n
           /\ d["pnl_total"] = traded[w].sum /\ d["pnl_24h"] = traded[w].sum
           /\ traded[w].n > 0 =>
                /\ "last_trade" \in DOMAIN d
                /\ d["last_trade"].pnl = traded[w].last
                /\ d["last_trade"].side = "buy"
           /\ (wop[w].name = "record_trade" /\ Parses(wpre[w])) =>
                /\ wout[w] = "ok"
                /\ d["trades_total"] = loads(wpre[w])["trades_total"] + 1
                /\ d["trades_24h"] = loads(wpre[w])["trades_24h"] + 1
                /\ d["pnl_total"] = loads(wpre[w])["pnl_total"] + wop[w].pnl
                /\ d["pnl_24h"] = loads(wpre[w])["pnl_24h"] + wop[w].pnl

\* record_trade(5) and record_trade(3) have returned on a fresh bot.
C4_Witness ==
    /\ wpc["w1"] = "idle" /\ wop["w1"].name = "record_trade"
    /\ traded["w1"] = [n |-> 2, sum |-> 8, last |-> 3]
    /\ loads(fs["mm_1h"]["json"])["trades_total"] = 2
    /\ loads(fs["mm_1h"]["json"])["pnl_total"] = 8

\* C5 as stated: every write that stores a document in a state file, by
\* _write or by the reconciler, stores a last_update strictly greater than
\* the one the write before it stored.
C5_LastUpdateIncreases ==
    [][\A b \in Bots :
          (/\ fs'[b]["json"] # fs[b]["json"]
           /\ Parses(fs'[b]["json"])
           /\ stamped[b].at > 0)
          => Get(loads(fs'[b]["json"]), "last_update", NoneTime) > stamped[b].stamp]_vars

\* C5, amended: the same, for a later write whose clock reading was taken
\* after the earlier write was stored; the value stored is that reading,
\* whatever last_update the caller supplied.
C5_LastUpdateIncreasesWhenReadAfter ==
    [][\A b \in Bots :
          (/\ fs'[b]["json"] # fs[b]["json"]
           /\ Parses(fs'[b]["json"])
           /\ stamped[b].at > 0)
          => LET new == Get(loads(fs'[b]["json"]), "last_update", NoneTime)
             IN /\ new # NoneTime /\ new < now
                /\ new >= stamped[b].at => new > stamped[b].stamp]_vars

\* The writer has stored a document for a call that supplied last_update 99,
\* and the reconciler, reading the clock later, has rewritten it as stopped.
C5_Witness ==
    /\ wop["w1"].name = "update" /\ wout["w1"] = "ok"
    /\ Get(wop["w1"].updates, "last_update", 0) = 99
    /\ Parses(fs["mm_1h"]["json"])
    /\ Get(loads(fs["mm_1h"]["json"]), "reconciled", FALSE)
    /\ loads(fs["mm_1h"]["json"])["status"] = "stopped"
    /\ "trades_total" \in DOMAIN loads(fs["mm_1h"]["json"])
    /\ stamped["mm_1h"].stamp = loads(fs["mm_1h"]["json"])["last_update"]
    /\ stamped["mm_1h"].stamp > 3

\* C6: when two writers of one bot have both returned from record_trade after
\* reading the same document, the file holds the document of the writer whose
\* rename came last, and its trades_total is one more than the document read:
\* one of the two trades is lost.
C6_LastRenameWins ==
    \A v \in Writers : \A w \in Writers \ {v} :
        (/\ botOf(v) = botOf(w)
         /\ wpc[v] = "idle" /\ wout[v] = "ok" /\ wop[v].name = "record_trade"
         /\ wpc[w] = "idle" /\ wout[w] = "ok" /\ wop[w].name = "record_trade"
         /\ Parses(wpre[v]) /\ wpre[v] = wpre[w])
        => LET b == botOf(v)
           IN /\ lastrename[b] \in {v, w}
              /\ fs[b]["json"] = dumps(current[lastrename[b]])
              /\ loads(fs[b]["json"])["trades_total"] = loads(wpre[v])["trades_total"] + 1
              /\ traded[v].n >= 1 /\ traded[w].n >= 1

\* Both record_trade calls have returned, w2's rename last: two trades were
\* recorded and the file counts one.
C6_Witness ==
    /\ wpc["w1"] = "idle" /\ wout["w1"] = "ok" /\ wop["w1"].name = "record_trade"
    /\ wpc["w2"] = "idle" /\ wout["w2"] = "ok" /\ wop["w2"].name = "record_trade"
    /\ wpre["w1"] = wpre["w2"] /\ Parses(wpre["w1"])
    /\ lastrename["mm_1h"] = "w2"
    /\ fs["mm_1h"]["json"] = dumps(current["w2"])
    /\ loads(fs["mm_1h"]["json"])["trades_total"] = 1

\* The step at which reconcile returns its report (line 169): process_states
\* is P and file_states is F, as lines 126-127 read them.
ReconcileReturns == rpc = "files" /\ rpc' = "idle"

\* How many mismatches of one kind a list holds for a bot.
Count(mismatches, bot_id, issue) ==
    Cardinality({i \in DOMAIN mismatches : mismatches[i] = Mismatch(bot_id, issue)})

\* C7: the report reconcile returns holds exactly one mismatch
\* running_but_no_state_file for each bot in P and not in F, and none for any
\* other bot.
C7_RunningButNoStateFile ==
    [][ReconcileReturns =>
          \A b \in Bots :
              Count(report'.mismatches, b, "running_but_no_state_file")
                  = IF b \in DOMAIN process_states /\ b \notin DOMAIN file_states THEN 1 ELSE 0]_vars

\* A returned report: two processes, one state file, and the one mismatch is
\* the bot without a file.
C7_Witness ==
    /\ rpc = "idle"
    /\ report.processes_found = 2 /\ report.state_files_found = 1
    /\ report.mismatches = <<Mismatch("hummingbot", "running_but_no_state_file")>>

\* C8: the report holds a mismatch state_says_running_but_process_missing for
\* a bot exactly when the bot is in F, not in P, and its file status is
\* running or active; a bot in both maps, and a bot in F only with another
\* status, has no mismatch of either kind.
C8_ProcessMissing ==
    [][ReconcileReturns =>
          \A b \in Bots :
              LET inP == b \in DOMAIN process_states
                  inF == b \in DOMAIN file_states
                  live == inF /\ file_states[b].status \in {"running", "active"}
              IN /\ Count(report'.mismatches, b, "state_says_running_but_process_missing") > 0
                    <=> (inF /\ ~inP /\ live)
                 /\ ((inP /\ inF) \/ (inF /\ ~inP /\ ~live))
                    => \A i \in DOMAIN report'.mismatches : report'.mismatches[i].bot_id # b]_vars

\* A returned report, not in auto-fix mode: the file says active, no process
\* of the bot was found, and the report holds that mismatch.
C8_Witness ==
    /\ rpc = "idle" /\ ~auto_fix /\ reconciles = 1
    /\ "mm_1h" \notin procs
    /\ Parses(fs["mm_1h"]["json"]) /\ loads(fs["mm_1h"]["json"])["status"] = "active"
    /\ report.mismatches = <<Mismatch("mm_1h", "state_says_running_but_process_missing")>>

\* C9: in the report being built and in the report returned, healthy is true
\* exactly when the mismatches list is empty, whatever was fixed.
C9_HealthyIffNoMismatch ==
    /\ report.healthy <=> (report.mismatches = <<>>)
    /\ rep.healthy <=> (rep.mismatches = <<>>)

\* A returned auto-fix report that fixed each of its two mismatches and is
\* not healthy.
C9_Witness ==
    /\ rpc = "idle" /\ auto_fix
    /\ Len(report.mismatches) = 2 /\ Len(report.fixed) = 2
    /\ ~report.healthy

\* C10: when reconcile returns in auto-fix mode, no other process having
\* touched the directory meanwhile, each bot with a running_but_no_state_file
\* mismatch has a state file with status running and colour green, each bot
\* with a state_says_running_but_process_missing mismatch has its file at
\* status stopped and colour red, and the fixed list is the list of the
\* mismatches' bot ids.
C10_AutoFixRepairs ==
    [][(ReconcileReturns /\ auto_fix) =>
          /\ \A i \in DOMAIN report'.mismatches :
                LET m == report'.mismatches[i]
                    c == fs'[m.bot_id]["json"]
                IN /\ Parses(c)
                   /\ m.issue = "running_but_no_state_file"
                        => /\ Get(loads(c), "status", NoneStr) = "running"
                           /\ Get(loads(c), "status_color", NoneStr) = "green"
                   /\ m.issue = "state_says_running_but_process_missing"
                        => /\ Get(loads(c), "status", NoneStr) = "stopped"
                           /\ Get(loads(c), "status_color", NoneStr) = "red"
          /\ report'.fixed = [i \in DOMAIN report'.mismatches |-> report'.mismatches[i].bot_id]]_vars

\* A returned auto-fix report with one mismatch of each kind: the file created
\* says running and green, the file of the missing process stopped and red.
C10_Witness ==
    /\ rpc = "idle" /\ auto_fix
    /\ report.mismatches = <<Mismatch("hummingbot", "running_but_no_state_file"),
                             Mismatch("mm_1h", "state_says_running_but_process_missing")>>
    /\ report.fixed = <<"hummingbot", "mm_1h">>
    /\ loads(fs["hummingbot"]["json"])["status"] = "running"
    /\ loads(fs["hummingbot"]["json"])["status_color"] = "green"
    /\ loads(fs["mm_1h"]["json"])["status"] = "stopped"
    /\ loads(fs["mm_1h"]["json"])["status_color"] = "red"

\* C11: started with --json, main writes the report of every reconcile run to
\* standard output as JSON, in run-once mode and in each iteration of
\* --daemon mode, and prints no formatted text report.
C11_JsonReportOnStdout ==
    [][(args.json /\ mpc = "print" /\ mpc' # "print")
          => stdout' = Append(stdout, Json(report))]_vars

\* C12: whatever the state directory holds, the scan of the state files does
\* not raise: each file that is not a JSON object is left out of the file
\* map, and the map holds every well-formed file.
C12_ScanNeverRaises ==
    [][(rpc = "file_states" /\ rpc' # rpc)
          => /\ rout' # "raised"
             /\ file_states' = get_file_states]_vars

\* The fields of the fixed default record.
DefaultKeys ==
    {"status", "pnl_total", "pnl_24h", "trades_total", "trades_24h", "position", "last_error"}

\* C13: whatever was called before on the writer, an update that finds no
\* state file returns (and stores) the fixed default record overlaid with the
\* fields supplied: zeroed counters, null position and error, no last_trade.
C13_AbsentFileStartsFromDefault ==
    \A w \in Writers :
        (/\ wpc[w] = "idle" /\ wout[w] = "ok"
         /\ wop[w].name \notin {"none", "__init__", "record_trade"}
         /\ wpre[w] = NoFile)
        => LET want == DictUpdate(DefaultState(botOf(w), botOf(w)), wop[w].updates)
           IN /\ \A k \in DefaultKeys : current[w][k] = want[k]
              /\ "last_trade" \in DOMAIN current[w] => "last_trade" \in DOMAIN wop[w].updates

\* C14: whatever the writers were given and whatever the reconciler fixed, the
\* document in the state file of bot b holds bot_id = b.
C14_BotIdIsFileName ==
    \A b \in Bots : Parses(fs[b]["json"]) =>
        /\ "bot_id" \in DOMAIN loads(fs[b]["json"])
        /\ loads(fs[b]["json"])["bot_id"] = b

\* C19: when a status setter has returned, the record it returned (the one
\* _write stored) holds the setter's status: running and green after
\* set_running whatever extra_fields held, error and the message after
\* set_error, paused after set_paused, stopped after set_stopped.
C19_SetterEstablishesStatus ==
    \A w \in Writers : (wpc[w] = "idle" /\ wout[w] = "ok") =>
        /\ wop[w].name = "set_running"
             => current[w]["status"] = "running" /\ current[w]["status_color"] = "green"
        /\ wop[w].name = "set_error"
             => /\ current[w]["status"] = "error"
                /\ current[w]["last_error"] = wop[w].updates["last_error"]
        /\ wop[w].name = "set_paused" => current[w]["status"] = "paused"
        /\ wop[w].name = "set_stopped" => current[w]["status"] = "stopped"

\* The rules' patterns: which of the four rules a command line matches.
Rule1(c) == "mm_optimized_15m" \in c
Rule2(c) == "mm_optimized_1h" \in c
Rule3(c) == "bot_v1" \in c \/ ("python" \in c /\ ("long" \in c \/ "short" \in c))
Rule4(c) == "hummingbot" \in c

\* C15: the rules are tried in the order 1, 2, 3, 4 and the first that matches
\* gives the bot id; a command line is dropped (None) only when none of the
\* four patterns matches it.
C15_FirstMatchingRuleWins ==
    /\ Rule1(cmdline) => extracted = "mm_15m"
    /\ (~Rule1(cmdline) /\ Rule2(cmdline)) => extracted = "mm_1h"
    /\ (~Rule1(cmdline) /\ ~Rule2(cmdline) /\ Rule3(cmdline))
          => extracted \in {"btc_long_v1", "btc_short_v1", "doge_long_v1", "doge_short_v1"}
    /\ (~Rule1(cmdline) /\ ~Rule2(cmdline) /\ ~Rule3(cmdline) /\ Rule4(cmdline))
          => extracted = "hummingbot"
    /\ extracted = NoneStr
          => ~(Rule1(cmdline) \/ Rule2(cmdline) \/ Rule3(cmdline) \/ Rule4(cmdline))

\* C16: in --daemon mode main never exits on its own; each iteration runs
\* reconcile to its end, then appends its report as one line to the log, then
\* sleeps, and only then does the next reconcile begin; the log only grows,
\* by the report just returned.
C16_DaemonLoop ==
    [][/\ args'.daemon => mpc' # "exited"
       /\ log' # log => /\ mpc = "reconciling" /\ rpc = "idle"
                        /\ log' = Append(log, report)
                        /\ Len(log) = sleeps
       /\ (args.daemon /\ rpc = "idle" /\ rpc' # "idle")
             => mpc = "call" /\ sleeps = Len(log)]_vars

\* C17: while reconcile runs in auto-fix mode, whoever reads a state file
\* finds no file or a complete document, never an empty or truncated one.
C17_ReconcilerWritesWholeDocument ==
    (rpc # "idle" /\ auto_fix) => \A b \in Bots : fs[b]["json"].kind # "partial"

\* C18: a reconcile run in auto-fix mode that begins with the processes and
\* the state files as the auto-fix run before it left them returns a report
\* with no mismatch, nothing fixed and healthy true.
C18_AutoFixConverges ==
    [][(ReconcileReturns /\ same)
          => /\ report'.mismatches = <<>>
             /\ report'.fixed = <<>>
             /\ report'.healthy]_vars

\* The first run created hummingbot's file and rewrote mm_1h's to stopped;
\* nothing changed, and the second run has returned.
C18_Witness ==
    /\ same /\ rpc = "idle" /\ rout = "ok" /\ mpc = "reconciling"
    /\ Len(log) = 1
    /\ log[1].fixed = <<"hummingbot", "mm_1h">>
    /\ report.timestamp > log[1].timestamp
    /\ report.processes_found = 1 /\ report.state_files_found = 2
    /\ report.mismatches = <<>>

\* The step at which _update_state_to_stopped stores the rewritten document.
RewritesToStopped == rpc = "stopped_write" /\ rpc' = "files" /\ fs' # fs

\* C20 as stated: the reconciler never rewrites to stopped the state file of a
\* bot whose process is alive at the moment of the rewrite.
C20_NeverStopsLiveBot ==
    [][RewritesToStopped => rbot \notin procs]_vars

\* C20, amended: the reconciler never rewrites to stopped the state file of a
\* bot whose process the process scan of the same run found.
C20_NeverStopsScannedBot ==
    [][RewritesToStopped =>
          /\ rbot \notin DOMAIN process_states
          /\ loads(fs'[rbot]["json"])["status"] = "stopped"]_vars

\* The bot started after the process scan and before the rewrite: its file
\* says stopped, written by the reconciler, while its process is alive.
C20_Witness ==
    /\ rpc = "files" /\ rbot = "mm_1h"
    /\ "mm_1h" \notin DOMAIN process_states
    /\ "mm_1h" \in procs
    /\ Parses(fs["mm_1h"]["json"])
    /\ loads(fs["mm_1h"]["json"])["status"] = "stopped"
    /\ Get(loads(fs["mm_1h"]["json"]), "reconciled", FALSE)
    /\ rep.fixed = <<"mm_1h">>
====
